---------------------------- MODULE Spec2Model ----------------------------
(***************************************************************************)
(* EnglishHelper: the reactive event-to-task pipeline of src/main.pyw      *)
(* (the revision at lines 81-460).                                         *)
(*                                                                         *)
(* Time is counted in ticks of 100 ms: the debounce delay of 0.1 s is one  *)
(* tick, the clipboard throttle and the layout TTL of 0.5 s are five.      *)
(* Strings of the text buffer are sequences of one-character strings.     *)
(***************************************************************************)
EXTENDS Integers, Sequences, FiniteSets, TLC

VARIABLES
    \* ---- event path (on_key_event) ----
    EDITOR,              \* TextEditorSimulator: [text, cursor]
    BUFFER,              \* word accumulator
    SENTENCE_FINISHED,
    layout_cache,        \* _layout_cache: [is_english, last_check]
    layout_query,        \* when the layout source was asked: [last, prev]
    emitted,             \* words handed to process_word_async by the event path
    nKeys,               \* key events the event path has worked through
    \* ---- sentence-translation channel ----
    TRANSLATION_TIMER,   \* 0 for None, else the index in timers of the handle
    timers,              \* every threading.Timer created so far
    afterQueue,          \* app.after calls for lbl_rus not yet run by Tk: the
                         \* timers that made them, oldest first
    lbl_eng,             \* sent_window.lbl_eng's text
    lbl_rus,             \* the timer whose call set sent_window.lbl_rus, 0 at start
    now,                 \* time.time(), in ticks
    mainloop,            \* APP.mainloop() and the end of the process:
                         \* [state, pcs]
    \* ---- task orchestrator (process_word_parallel and its workers) ----
    reqs,                \* every process_word_parallel thread started so far
    wordQueue,           \* app.after calls for the main window not yet run by Tk
    display,             \* the main window: [word, trans, img, full]
    AutoPronounce,       \* cfg.get_bool("USER", "AutoPronounce")
    \* ---- clipboard throttle (handle_clipboard_word) ----
    CLIPBOARD_LAST_TIME,
    clip,                \* the handler: [pc, accepted, rejected, last]
    handlers,            \* handle_clipboard_word calls that may overlap
    \* ---- audio readiness synchroniser (_instant_auto_pronounce) ----
    PLAYSOUND_AVAILABLE,
    cache_valid,         \* exists(cache_path) and getsize(cache_path) > 1000
    audio                \* the pronunciation request in progress

keyVars == <<EDITOR, BUFFER, SENTENCE_FINISHED, layout_cache, layout_query,
             emitted, nKeys>>
sentVars == <<TRANSLATION_TIMER, timers, afterQueue, lbl_eng, lbl_rus>>
vars == <<EDITOR, BUFFER, SENTENCE_FINISHED, layout_cache, layout_query,
          emitted, nKeys,
          TRANSLATION_TIMER, timers, afterQueue, lbl_eng, lbl_rus, now,
          mainloop, reqs, wordQueue, display, AutoPronounce,
          CLIPBOARD_LAST_TIME, clip, handlers,
          PLAYSOUND_AVAILABLE, cache_valid, audio>>
wordVars == <<reqs, wordQueue, display, AutoPronounce>>
clipVars == <<CLIPBOARD_LAST_TIME, clip, handlers>>
audioVars == <<PLAYSOUND_AVAILABLE, cache_valid, audio>>
otherThanKeys == <<mainloop, wordVars, clipVars, audioVars>>
otherThanWords == <<keyVars, sentVars, now, mainloop, clipVars, audioVars>>
otherThanClip ==
    <<keyVars, sentVars, mainloop, wordQueue, display, AutoPronounce, audioVars>>
otherThanAudio == <<keyVars, sentVars, now, mainloop, wordVars, clipVars>>
otherThanMain == <<keyVars, sentVars, now, wordVars, clipVars, audioVars>>

---------------------------------------------------------------------------
(* Bounds of the model *)

MaxKeys == 3        \* key events that pass the gate in a run, any key
MaxEditKeys == 3    \* the same, in the runs over the keys that write or edit
MaxBurstKeys == 3   \* the same, in the runs over the keys of a burst
MaxClock == 2       \* ticks the clock advances in a run of the event path
MaxShutdownKeys == 2 \* key events before the main loop ends
MaxGateKeys == 2    \* key events that pass the gate in a run over the gate
MaxGateClock == 6   \* ticks the clock advances in a run over the gate
MaxWords == 1       \* completed words handed to process_word_async in a run
MaxFairWords == 1   \* the same in a run where progress is checked
MaxLookupWords == 1 \* the same in a run where the user types meanwhile
MaxLookupKeys == 1  \* key events in such a run
MaxPronounceWords == 1 \* completed words in a run with the pronunciation thread
MaxPronounceKeys == 1  \* key events in such a run
MaxOverlap == 2     \* the same in a run where the words overlap
MaxWordQueue == 2   \* main-window callbacks that may be pending at once
MaxClipClock == 12  \* ticks the clock advances in a run of the clipboard handler
MaxRejects == 2     \* clipboard events rejected between two accepted ones
MaxHandlers == 2     \* handle_clipboard_word calls that may overlap
MaxRaceClock == 5    \* ticks the clock advances in a run over such calls
MaxAudio == 2       \* pronunciation requests in a run

(* Program constants, in ticks of 100 ms *)

TimerDelay == 1     \* threading.Timer(0.1, ...)
LayoutTTL == 5      \* current_time - last_check < 0.5
ThrottleWindow == 5 \* current_time - CLIPBOARD_LAST_TIME < 0.5

(* Other program constants *)

max_wait == 20      \* polls of the audio cache, 0.1 s apart
MaxClipLen == 50    \* 0 < len(text) <= 50

\* time.time() is seconds since the epoch: the timestamps initialised to 0
\* (last_check, CLIPBOARD_LAST_TIME) lie more than any window in the past.
StartTime == LayoutTTL

---------------------------------------------------------------------------
(* Characters and keys *)

Letters == {"a", "b"}                          \* re.match(r"^[a-zA-Z]$", key)
Delimiters == {" ", ".", ",", "!", "?"}     \* key in [" ", ".", ",", "!", "?"]
Terminators == {".", "!", "?"}              \* key in [".", "!", "?"]
NoClearKeys == {" ", ".", "!", "?", ","}    \* keys that do not clear a finished sentence
OtherChars == {"1"}                         \* a length-1 key of neither class
NamedKeys == {"space", "enter", "backspace", "delete", "left", "right",
              "shift"}
\* Key names the keyboard library reports by physical position under the
\* English layout; cyr_f stands for the Cyrillic letter on the key of "a".
CyrillicKeys == {"cyr_f"}

KeyNames == Letters \cup {".", ","} \cup OtherChars \cup NamedKeys \cup CyrillicKeys

\* The keys of a burst of boundary events with letters in between.
BurstKeys == {"a", "space", "."}

KEYBOARD_BUG_FIX(k) ==
    IF k = "cyr_f" THEN "a" ELSE k

IsLen1(k) == k \in Letters \cup Delimiters \cup OtherChars

---------------------------------------------------------------------------
(* str.strip() *)

IsWhitespace(c) == c \in {" ", "\n"}

RECURSIVE LStrip(_)
LStrip(s) == IF s # <<>> /\ IsWhitespace(Head(s)) THEN LStrip(Tail(s)) ELSE s

RECURSIVE RStrip(_)
RStrip(s) ==
    IF s # <<>> /\ IsWhitespace(s[Len(s)])
    THEN RStrip(SubSeq(s, 1, Len(s) - 1))
    ELSE s

Strip(s) == RStrip(LStrip(s))

---------------------------------------------------------------------------
(* TextEditorSimulator: text plus cursor, 0 <= cursor <= Len(text) *)

EdInit == [text |-> <<>>, cursor |-> 0]

EdInsert(ed, ch) ==
    [text |-> SubSeq(ed.text, 1, ed.cursor) \o <<ch>>
                \o SubSeq(ed.text, ed.cursor + 1, Len(ed.text)),
     cursor |-> ed.cursor + 1]

EdBackspace(ed) ==
    IF ed.cursor > 0
    THEN [text |-> SubSeq(ed.text, 1, ed.cursor - 1)
                     \o SubSeq(ed.text, ed.cursor + 1, Len(ed.text)),
          cursor |-> ed.cursor - 1]
    ELSE ed

EdDelete(ed) ==
    IF ed.cursor < Len(ed.text)
    THEN [text |-> SubSeq(ed.text, 1, ed.cursor)
                     \o SubSeq(ed.text, ed.cursor + 2, Len(ed.text)),
          cursor |-> ed.cursor]
    ELSE ed

EdMoveLeft(ed) == IF ed.cursor > 0 THEN [ed EXCEPT !.cursor = @ - 1] ELSE ed

EdMoveRight(ed) ==
    IF ed.cursor < Len(ed.text) THEN [ed EXCEPT !.cursor = @ + 1] ELSE ed

EdClear(ed) == EdInit

EdGetText(ed) == ed.text

EdGetTextWithCursor(ed) ==
    SubSeq(ed.text, 1, ed.cursor) \o <<"|">>
        \o SubSeq(ed.text, ed.cursor + 1, Len(ed.text))

---------------------------------------------------------------------------
(* Layout gate: is_english_layout().  The outcome of the WinAPI query is  *)
(* "en", "other" or "fail" (the call raised).                              *)

LayoutOutcomes == {"en", "other", "fail"}

LayoutCached(cache, t) == t - cache.last_check < LayoutTTL

is_english_layout(cache, t, outcome) ==
    IF LayoutCached(cache, t) THEN cache.is_english
    ELSE IF outcome = "fail" THEN TRUE
    ELSE outcome = "en"

LayoutCacheAfter(cache, t, outcome) ==
    IF LayoutCached(cache, t) \/ outcome = "fail" THEN cache
    ELSE [is_english |-> (outcome = "en"), last_check |-> t]

\* Bookkeeping of the calls that reach the WinAPI query (the try block):
\* the time of the last one and of the one before it, NoQuery for none.
NoQuery == -1

LayoutQueryAfter(q, cache, t) ==
    IF LayoutCached(cache, t) THEN q ELSE [last |-> t, prev |-> q.last]

---------------------------------------------------------------------------
(* on_key_event, from the key name on: what one accepted key-up event     *)
(* does to the editor, the accumulator and the finished flag, and what it *)
(* asks of trigger_sentence_update.  word is the accumulator handed to    *)
(* process_word_async, <<>> when nothing is emitted.                       *)

KeyResult(ed, buf, fin, upd, tr, word) ==
    [ed |-> ed, buf |-> buf, fin |-> fin, update_needed |-> upd,
     need_translate |-> tr, word |-> word]

ClearsFinishedNever(fin, key) == FALSE

\* "if SENTENCE_FINISHED and key not in [" ", ".", "!", "?", ","]"
ClearsFinished(fin, key) == fin /\ key \notin NoClearKeys

AccumulateInFront(buf, key) == <<key>> \o buf

\* "BUFFER += key"
Accumulate(buf, key) == Append(buf, key)

FinishedAfterClearKept(clr, fin) == fin

\* "EDITOR.clear(); SENTENCE_FINISHED = False" under the test above.
FinishedAfterClear(clr, fin) == IF clr THEN FALSE ELSE fin

BufferAfterFlushKept(buf) == buf

\* "if BUFFER: process_word_async(BUFFER, APP); BUFFER = """: the
\* accumulator after a delimiter, space or enter.
BufferAfterFlush(buf) == <<>>

OnLiteral(ed, buf, fin, key) ==
    LET clr == ClearsFinished(fin, key)
        ed1 == IF clr THEN EdClear(ed) ELSE ed
        fin1 == FinishedAfterClear(clr, fin)
        ed2 == EdInsert(ed1, key)
    IN  IF key \in Letters
        THEN KeyResult(ed2, Accumulate(buf, key), fin1, TRUE, FALSE, <<>>)
        ELSE IF key \in Delimiters
        THEN KeyResult(ed2, BufferAfterFlush(buf),
                       IF key \in Terminators THEN TRUE ELSE fin1,
                       TRUE, TRUE, buf)
        ELSE KeyResult(ed2, buf, fin1, TRUE, FALSE, <<>>)

FinishedAfterEraseKept(fin) == fin

\* backspace and delete: "SENTENCE_FINISHED = False"
FinishedAfterErase(fin) == FALSE

OnKey(ed, buf, fin, name) ==
    LET key == KEYBOARD_BUG_FIX(name)
    IN  IF IsLen1(key) \/ name \in CyrillicKeys
        THEN OnLiteral(ed, buf, fin, key)
        ELSE IF name = "space"
        THEN KeyResult(EdInsert(ed, " "), BufferAfterFlush(buf), fin, TRUE,
                       TRUE, buf)
        ELSE IF name = "enter"
        THEN KeyResult(EdInsert(ed, "\n"), BufferAfterFlush(buf), TRUE, TRUE,
                       TRUE, buf)
        ELSE IF name = "backspace"
        THEN KeyResult(EdBackspace(ed),
                       IF buf # <<>> THEN SubSeq(buf, 1, Len(buf) - 1) ELSE buf,
                       FinishedAfterErase(fin), TRUE, FALSE, <<>>)
        ELSE IF name = "delete"
        THEN KeyResult(EdDelete(ed), buf, FinishedAfterErase(fin), TRUE, FALSE,
                       <<>>)
        ELSE IF name = "left"
        THEN KeyResult(EdMoveLeft(ed), buf, fin, TRUE, FALSE, <<>>)
        ELSE IF name = "right"
        THEN KeyResult(EdMoveRight(ed), buf, fin, TRUE, FALSE, <<>>)
        ELSE KeyResult(ed, buf, fin, FALSE, FALSE, <<>>)

---------------------------------------------------------------------------
(* threading.Timer.  pc: "wait" in finished.wait(interval); "go" after    *)
(* the thread found finished unset and before the callback body; "fetch"  *)
(* inside fetch_sentence_translation; "done" after the callback; "dead"   *)
(* when the thread found finished set and left.  burst is bookkeeping:    *)
(* the first timer of the burst of boundary events this timer belongs to. *)

\* sched, fire and seen are bookkeeping too: the buffer text when the timer
\* was scheduled and when its callback read it, and the number of timers
\* created by the time its callback read it.
NewTimer(t, burst, text) ==
    [pc |-> "wait", finished |-> FALSE, deadline |-> t + TimerDelay,
     clean |-> <<>>, fetched |-> FALSE, burst |-> burst, sched |-> text,
     fire |-> <<>>, seen |-> 0]

CancelTimerSkipped(ts, h) == ts

\* TRANSLATION_TIMER.cancel(): sets the timer's finished event.
CancelTimer(ts, h) == IF h = 0 THEN ts ELSE [ts EXCEPT ![h].finished = TRUE]

\* The burst a timer started at time t belongs to: the previous timer's
\* when t is before that timer's deadline, else a new one.
BurstOf(ts, t) ==
    IF ts # <<>> /\ t < ts[Len(ts)].deadline
    THEN ts[Len(ts)].burst
    ELSE Len(ts) + 1

BufferReadAtSchedule(timer, ed) == Strip(timer.sched)

\* delayed_translation_task: clean_text = EDITOR.get_text().strip()
BufferRead(timer, ed) == Strip(EdGetText(ed))

NeedsFetchAlways(clean) == TRUE

\* delayed_translation_task: "if clean_text:"
NeedsFetch(clean) == clean # <<>>

\* fetch_sentence_translation(text): the translation of text, kept apart
\* from the text itself and from the placeholder.
Translation(text) == <<"tr:">> \o text
Placeholder == <<"...">>

---------------------------------------------------------------------------
(* Task orchestrator.  A request is one process_word_parallel thread:      *)
(* pc "start" before the filter, "reset" after app.after(reset_ui), "done" *)
(* after the last spawn or the early return; trans, img and full are the   *)
(* worker threads, "none" until spawned, then "run", then "done".  The n   *)
(* fields count the calls the request has made.                            *)

Words == {"A", "B"}
None == "none"
NoKey == "no_key"

NewRequest(w) ==
    [w |-> w, tgt |-> w, pc |-> "start", simple |-> FALSE, hit |-> FALSE,
     trans |-> "none", img |-> "none", full |-> "none",
     nReset |-> 0, nCacheCheck |-> 0, nTrans |-> 0,
     nFetchTrans |-> 0, nImg |-> 0, nFull |-> 0, nAudio |-> 0]

FilteredNever(too_simple) == FALSE

\* process_word_parallel: "if too_simple: return"
Filtered(too_simple) == too_simple

SpawnsTransWorkerAlways(cached_res) == TRUE

\* process_word_parallel: "if cached_res: ... else: Thread(worker_trans)"
SpawnsTransWorker(cached_res) == ~cached_res

\* worker_trans: "API" if res and not res.get("cached") else the dash.
\* res is "api" (a fresh result), "cached" (a result marked cached) or
\* "none" (no result).
TransTag(res) == IF res = "api" THEN "API" ELSE "-"

\* A presentation call as the code makes it: the operation, its value (of:
\* the word the value was computed for, None for an empty value), the
\* source tag, and the word key the call passes - none in any of them.
\* req is bookkeeping: the request that made the call.
ResetCall(r, tgt) ==
    [op |-> "reset", of |-> tgt, tag |-> None, key |-> tgt, req |-> r]
TransCall(r, of, tag) ==
    [op |-> "trans", of |-> of, tag |-> tag, key |-> NoKey, req |-> r]
ImgCall(r, of) ==
    [op |-> "img", of |-> of, tag |-> None, key |-> NoKey, req |-> r]
FullCall(r, of) ==
    [op |-> "full", of |-> of, tag |-> None, key |-> NoKey, req |-> r]

\* Display sink: a result is discarded when the key it carries differs from
\* the current word; a call that carries no key has nothing to compare.
SinkAccepts(call, d) == call.key = NoKey \/ call.key = d.word

SinkApply(call, d) ==
    IF call.op = "reset"
    THEN [word |-> call.of, trans |-> None, img |-> None, full |-> None]
    ELSE IF ~SinkAccepts(call, d) THEN d
    ELSE IF call.op = "trans" THEN [d EXCEPT !.trans = call.of]
    ELSE IF call.op = "img" THEN [d EXCEPT !.img = call.of]
    ELSE [d EXCEPT !.full = call.of]

---------------------------------------------------------------------------
(* Clipboard throttle.  clip.accepted lists the times of the accepted      *)
(* events, clip.rejected counts the events rejected since the last         *)
(* accepted one, clip.last records the last event: its time, whether it    *)
(* was accepted, the time of the accepted event before it (Never when      *)
(* there was none) and the events rejected in between.                     *)

Never == -1

ThrottledNever(current_time, last_time) == FALSE

\* handle_clipboard_word: "if current_time - CLIPBOARD_LAST_TIME < 0.5: return"
Throttled(current_time, last_time) == current_time - last_time < ThrottleWindow

LastTimeSliding(throttled, current_time, last_time) == current_time

\* CLIPBOARD_LAST_TIME after the throttle test: set only past the return.
LastTimeAfter(throttled, current_time, last_time) ==
    IF throttled THEN last_time ELSE current_time

\* A call of handle_clipboard_word that may overlap with another one.  pc:
\* "idle" before the call, "timed" after current_time = time.time(),
\* "passed" after the throttle test let it through, "accepted" after the
\* assignment to CLIPBOARD_LAST_TIME, "rejected" after the early return,
\* "done" after the paste; word is what it handed to process_word_async.
HandlerIds == 1..MaxHandlers
IdleHandler == [pc |-> "idle", current_time |-> Never, word |-> <<>>]

\* What pyperclip.paste() may give: it raises, or returns a text.
ClipWordChars == {"a", "b", "-", "'"}       \* ^[a-zA-Z\-']+$
LongText == [i \in 1..(MaxClipLen + 1) |-> "a"]
ClipTexts ==
    {<<>>, <<" ">>, <<"a">>, <<" ", "b", " ">>, <<"a", "1">>, <<"a", "-", "b">>,
     <<"a", " ", "b">>, LongText}
PasteOutcomes ==
    {[raised |-> TRUE, text |-> <<>>]}
        \cup {[raised |-> FALSE, text |-> t] : t \in ClipTexts}

\* handle_clipboard_word, lines 292-305: the word to look up, <<>> for none.
ClipWord(outcome) ==
    IF outcome.raised THEN <<>>
    ELSE IF outcome.text = <<>> THEN <<>>
    ELSE LET text == Strip(outcome.text)
         IN  IF ~(0 < Len(text) /\ Len(text) <= MaxClipLen) THEN <<>>
             ELSE IF \E i \in 1..Len(text) : text[i] \notin ClipWordChars
             THEN <<>>
             ELSE text

---------------------------------------------------------------------------
(* Audio readiness synchroniser.  pc: "idle" before the request, "poll"    *)
(* in the loop, "fallback" past the loop, "done" when the function has     *)
(* returned.  polls, plays and streams count the evaluations of the cache  *)
(* predicate and the calls of playsound and streaming_play_and_cache;      *)
(* sawValid and playOk record that a poll found the cache valid and that   *)
(* the playback returned normally.                                         *)

IdleAudio(n) ==
    [n |-> n, pc |-> "idle", attempt |-> 0, polls |-> 0, plays |-> 0,
     streams |-> 0, sawValid |-> FALSE, playOk |-> FALSE]

AfterPlayKeepPolling(ok) == "poll"

\* The loop after playsound(cache_path): return, or break on an exception.
AfterPlay(ok) == IF ok THEN "done" ELSE "fallback"

LoopExhaustedLate(attempt) == attempt >= max_wait + 1

\* for attempt in range(max_wait)
LoopExhausted(attempt) == attempt >= max_wait

---------------------------------------------------------------------------
(* State after construction *)

InitKeys ==
    /\ EDITOR = EdInit
    /\ BUFFER = <<>>
    /\ SENTENCE_FINISHED = FALSE
    /\ layout_cache = [is_english |-> TRUE, last_check |-> 0]
    /\ layout_query = [last |-> NoQuery, prev |-> NoQuery]
    /\ emitted = <<>>
    /\ nKeys = 0

InitSentence ==
    /\ TRANSLATION_TIMER = 0
    /\ timers = <<>>
    /\ afterQueue = <<>>
    /\ lbl_eng = <<>>
    /\ lbl_rus = 0

\* The main loop is running; pcs is bookkeeping, filled in when it ends:
\* where each timer thread stood at that moment.
InitMain == mainloop = [state |-> "running", pcs |-> <<>>]

InitWords ==
    /\ reqs = <<>>
    /\ wordQueue = <<>>
    /\ display = [word |-> None, trans |-> None, img |-> None, full |-> None]
    /\ AutoPronounce \in BOOLEAN

InitClip ==
    /\ CLIPBOARD_LAST_TIME = 0
    /\ clip = [pc |-> "idle", accepted |-> <<>>, rejected |-> 0,
               last |-> [t |-> Never, accepted |-> FALSE, prev |-> Never,
                         rejected |-> 0]]
    /\ handlers = [h \in HandlerIds |-> IdleHandler]

InitAudio ==
    /\ PLAYSOUND_AVAILABLE \in BOOLEAN
    /\ cache_valid = FALSE
    /\ audio = IdleAudio(0)

InitAll ==
    /\ InitKeys
    /\ InitSentence
    /\ InitMain
    /\ InitWords
    /\ InitClip
    /\ InitAudio
    /\ now = StartTime

\* The event path, the sentence channel and the clipboard handler never read
\* the configuration nor the audio backend.
Init == InitAll /\ AutoPronounce /\ PLAYSOUND_AVAILABLE

\* The task orchestrator reads the configuration, not the audio backend.
InitOrchestrator == InitAll /\ PLAYSOUND_AVAILABLE

\* The pronunciation thread is started only when AutoPronounce is set.
InitPronounce == InitAll /\ AutoPronounce

---------------------------------------------------------------------------
(* The event path *)

\* trigger_sentence_update(APP, need_translate), with the new text ed.
trigger_sentence_update(ed, need_translate) ==
    /\ lbl_eng' = EdGetTextWithCursor(ed)
    /\ IF need_translate
       THEN /\ timers' = Append(CancelTimer(timers, TRANSLATION_TIMER),
                                NewTimer(now, BurstOf(timers, now),
                                         EdGetText(ed)))
            /\ TRANSLATION_TIMER' = Len(timers) + 1
       ELSE /\ timers' = CancelTimer(timers, TRANSLATION_TIMER)
            /\ UNCHANGED TRANSLATION_TIMER
    /\ UNCHANGED <<afterQueue, lbl_rus>>

GatedByLayoutOnly(english, modifier) == ~english

\* on_key_event, lines 356-361: the event is dropped under another layout
\* or while ctrl or alt is held.
Gated(english, modifier) == ~english \/ modifier

\* on_key_event(e): e.event_type, e.name, the layout query's outcome and
\* whether ctrl or alt is held.  budget bounds the run.
on_key_event(event_type, name, outcome, modifier, budget) ==
    IF event_type = "down"
    THEN UNCHANGED vars
    ELSE /\ layout_cache' = LayoutCacheAfter(layout_cache, now, outcome)
         /\ layout_query' = LayoutQueryAfter(layout_query, layout_cache, now)
         /\ UNCHANGED <<now, otherThanKeys>>
         /\ IF Gated(is_english_layout(layout_cache, now, outcome), modifier)
            THEN UNCHANGED <<EDITOR, BUFFER, SENTENCE_FINISHED, emitted, nKeys,
                             sentVars>>
            ELSE LET r == OnKey(EDITOR, BUFFER, SENTENCE_FINISHED, name)
                 IN  /\ nKeys < budget
                     /\ nKeys' = nKeys + 1
                     /\ EDITOR' = r.ed
                     /\ BUFFER' = r.buf
                     /\ SENTENCE_FINISHED' = r.fin
                     /\ emitted' = IF r.word # <<>> THEN Append(emitted, r.word)
                                   ELSE emitted
                     /\ IF r.update_needed
                        THEN trigger_sentence_update(r.ed, r.need_translate)
                        ELSE UNCHANGED sentVars

\* The layout source is asked only when the cache has expired, so only
\* then is there an outcome to choose.
KeyEventOver(types, names, modifiers, outcomes, budget) ==
    \E event_type \in types, name \in names, modifier \in modifiers :
        \E outcome \in IF LayoutCached(layout_cache, now) THEN {"en"}
                        ELSE outcomes :
            on_key_event(event_type, name, outcome, modifier, budget)

KeyEvent ==
    KeyEventOver({"down", "up"}, KeyNames, BOOLEAN, LayoutOutcomes, MaxKeys)

\* The events of a burst: key-ups under the English layout with no modifier
\* held, so that each of them is processed.
BurstKeyEvent ==
    KeyEventOver({"up"}, BurstKeys, {FALSE}, {"en"}, MaxBurstKeys)

---------------------------------------------------------------------------
(* The task orchestrator's threads *)

\* process_word_async(word, app): a process_word_parallel thread is started.
SpawnWord(w) == reqs' = Append(reqs, NewRequest(w))

\* process_word_async from the event path, the clipboard handler or the
\* search callback, within the bound of the run.
process_word_async(w, budget) ==
    /\ Len(reqs) < budget
    /\ SpawnWord(w)
    /\ UNCHANGED <<wordQueue, display, AutoPronounce>>

\* app.after(0, call): the call joins Tk's queue.
After(call) ==
    /\ Len(wordQueue) < MaxWordQueue
    /\ wordQueue' = Append(wordQueue, call)

\* process_word_parallel, lines 257-261: the filter, then the reset.
\* is_word_too_simple gives the verdict and the normalised word; the words
\* of the model stand for their normalised forms.
PWP_Filter(r, too_simple) ==
    /\ reqs[r].pc = "start"
    /\ IF Filtered(too_simple)
       THEN /\ reqs' = [reqs EXCEPT ![r].pc = "done", ![r].simple = too_simple]
            /\ UNCHANGED wordQueue
       ELSE /\ reqs' = [reqs EXCEPT ![r].pc = "reset",
                                    ![r].simple = too_simple,
                                    ![r].nReset = @ + 1]
            /\ After(ResetCall(r, reqs[r].tgt))
    /\ UNCHANGED <<display, AutoPronounce>>

SpawnsOtherWorkersOnMiss(cached_res) == ~cached_res

\* The image worker and the dictionary worker are started whatever the
\* cache check gave.
SpawnsOtherWorkers(cached_res) == TRUE

HandsOverNever == FALSE

\* The cached translation goes to the main window through app.after(0, ...),
\* not by a call from the thread.
HandsOver == TRUE

\* process_word_parallel, lines 263-272: the cache check, the cached
\* presentation or the translation worker, then the other two workers.
PWP_Dispatch(r, cached_res) ==
    /\ reqs[r].pc = "reset"
    /\ reqs' = [reqs EXCEPT
          ![r].pc = "done",
          ![r].hit = cached_res,
          ![r].nCacheCheck = @ + 1,
          ![r].trans = IF SpawnsTransWorker(cached_res) THEN "run" ELSE "none",
          ![r].nTrans = IF cached_res THEN @ + 1 ELSE @,
          ![r].img = IF SpawnsOtherWorkers(cached_res) THEN "run" ELSE "none",
          ![r].full = IF SpawnsOtherWorkers(cached_res) THEN "run" ELSE "none"]
    /\ IF cached_res
       THEN IF HandsOver
            THEN After(TransCall(r, reqs[r].tgt, "Cache")) /\ UNCHANGED display
            ELSE /\ display' = SinkApply(TransCall(r, reqs[r].tgt, "Cache"),
                                        display)
                 /\ UNCHANGED wordQueue
       ELSE UNCHANGED <<wordQueue, display>>
    /\ UNCHANGED AutoPronounce

AfterFetchRetried(res) == IF res = "none" THEN "run" ELSE "done"

\* worker_trans has one fetch and one app.after and then returns, whatever
\* res is.
AfterFetch(res) == "done"

\* worker_trans: fetch_word_translation returns res; the result, or {} when
\* there is none, is handed to Tk.
worker_trans(r, res) ==
    /\ reqs[r].trans = "run"
    /\ reqs' = [reqs EXCEPT ![r].trans = AfterFetch(res),
                            ![r].nFetchTrans = @ + 1,
                            ![r].nTrans = @ + 1]
    /\ After(TransCall(r, IF res = "none" THEN None ELSE reqs[r].tgt,
                       TransTag(res)))
    /\ UNCHANGED <<display, AutoPronounce>>

\* worker_img: fetch_image returns the (path, src) of the word.
worker_img(r) ==
    /\ reqs[r].img = "run"
    /\ reqs' = [reqs EXCEPT ![r].img = "done", ![r].nImg = @ + 1]
    /\ After(ImgCall(r, reqs[r].tgt))
    /\ UNCHANGED <<display, AutoPronounce>>

\* worker_full_data_display: the cached data or else the fetched data (or
\* none) is handed to Tk; with AutoPronounce set, the pronunciation thread
\* is started.
worker_full_data_display(r, found) ==
    /\ reqs[r].full = "run"
    /\ reqs' = [reqs EXCEPT ![r].full = "done", ![r].nFull = @ + 1,
                            ![r].nAudio = IF AutoPronounce THEN @ + 1 ELSE @]
    /\ After(FullCall(r, IF found THEN reqs[r].tgt ELSE None))
    /\ UNCHANGED <<display, AutoPronounce>>

\* Tk runs the oldest pending call of the main window.
RunWordUI ==
    /\ wordQueue # <<>>
    /\ display' = SinkApply(Head(wordQueue), display)
    /\ wordQueue' = Tail(wordQueue)
    /\ UNCHANGED <<reqs, AutoPronounce>>

WordThreads ==
    \/ \E r \in 1..Len(reqs), too_simple \in BOOLEAN :
          PWP_Filter(r, too_simple) /\ UNCHANGED otherThanWords
    \/ \E r \in 1..Len(reqs), cached_res \in BOOLEAN :
          PWP_Dispatch(r, cached_res) /\ UNCHANGED otherThanWords
    \/ \E r \in 1..Len(reqs), res \in {"api", "cached", "none"} :
          worker_trans(r, res) /\ UNCHANGED otherThanWords
    \/ \E r \in 1..Len(reqs) : worker_img(r) /\ UNCHANGED otherThanWords
    \/ \E r \in 1..Len(reqs), found \in BOOLEAN :
          worker_full_data_display(r, found) /\ UNCHANGED otherThanWords
    \/ RunWordUI /\ UNCHANGED otherThanWords

\* One word at a time.
NextWords ==
    \/ \E w \in Words :
          process_word_async(w, MaxWords) /\ UNCHANGED otherThanWords
    \/ WordThreads

SpecWords == InitOrchestrator /\ [][NextWords]_vars

\* The threads whose progress the claims below rely on, one kind at a time.
ImgWorkers ==
    \E r \in 1..Len(reqs) : worker_img(r) /\ UNCHANGED otherThanWords
FullWorkers ==
    \E r \in 1..Len(reqs), found \in BOOLEAN :
        worker_full_data_display(r, found) /\ UNCHANGED otherThanWords
MainLoop == RunWordUI /\ UNCHANGED otherThanWords

\* The word "A" completed up to MaxFairWords times.
NextSameWord ==
    \/ process_word_async("A", MaxFairWords) /\ UNCHANGED otherThanWords
    \/ WordThreads

\* Tk's main loop keeps running; no worker is assumed to return.
SpecWordsFair ==
    InitOrchestrator /\ [][NextSameWord]_vars /\ WF_vars(MainLoop)

\* A word is completed while the threads of the one before are running.
NextOverlap ==
    \/ \E w \in Words :
          process_word_async(w, MaxOverlap) /\ UNCHANGED otherThanWords
    \/ WordThreads

SpecOverlap == InitOrchestrator /\ [][NextOverlap]_vars

---------------------------------------------------------------------------
(* The clipboard handler, one event at a time *)

\* handle_clipboard_word, lines 280-287: the throttle.
ClipboardEvent ==
    /\ clip.pc = "idle"
    /\ LET throttled == Throttled(now, CLIPBOARD_LAST_TIME)
           prev == IF clip.accepted = <<>> THEN Never
                   ELSE clip.accepted[Len(clip.accepted)]
       IN  /\ throttled => clip.rejected < MaxRejects
           /\ CLIPBOARD_LAST_TIME' = LastTimeAfter(throttled, now, CLIPBOARD_LAST_TIME)
           /\ clip' = [pc |-> IF throttled THEN "idle" ELSE "accepted",
                       accepted |-> IF throttled THEN clip.accepted
                                    ELSE Append(clip.accepted, now),
                       rejected |-> IF throttled THEN clip.rejected + 1 ELSE 0,
                       last |-> [t |-> now, accepted |-> ~throttled,
                                 prev |-> prev, rejected |-> clip.rejected]]
    /\ UNCHANGED <<now, reqs, handlers>>

\* handle_clipboard_word, lines 289-307: the read, the validation and the
\* dispatch.
ClipboardPaste(outcome) ==
    /\ clip.pc = "accepted"
    /\ clip' = [clip EXCEPT !.pc = "idle"]
    /\ IF ClipWord(outcome) # <<>>
       THEN SpawnWord(ClipWord(outcome))
       ELSE UNCHANGED reqs
    /\ UNCHANGED <<now, CLIPBOARD_LAST_TIME, handlers>>

ClipTick ==
    /\ now < StartTime + MaxClipClock
    /\ now' = now + 1
    /\ UNCHANGED <<clipVars, reqs>>

NextClip ==
    \/ ClipboardEvent /\ UNCHANGED otherThanClip
    \/ \E outcome \in PasteOutcomes :
          ClipboardPaste(outcome) /\ UNCHANGED otherThanClip
    \/ ClipTick /\ UNCHANGED otherThanClip

SpecClip == Init /\ [][NextClip]_vars

---------------------------------------------------------------------------
(* The clipboard handler, calls on different threads.  The handler takes   *)
(* no lock, so a call is a sequence of steps another call may step into:   *)
(* the clock read, the throttle test, the assignment, the paste.           *)

\* line 283: current_time = time.time()
HandlerTime(h) ==
    /\ handlers[h].pc = "idle"
    /\ handlers' = [handlers EXCEPT ![h].pc = "timed", ![h].current_time = now]
    /\ UNCHANGED <<now, CLIPBOARD_LAST_TIME, clip, reqs>>

\* lines 284-285: the test reads CLIPBOARD_LAST_TIME.
HandlerTest(h) ==
    /\ handlers[h].pc = "timed"
    /\ handlers' =
          [handlers EXCEPT ![h].pc =
              IF Throttled(handlers[h].current_time, CLIPBOARD_LAST_TIME)
              THEN "rejected" ELSE "passed"]
    /\ UNCHANGED <<now, CLIPBOARD_LAST_TIME, clip, reqs>>

\* line 287: CLIPBOARD_LAST_TIME = current_time
HandlerAssign(h) ==
    /\ handlers[h].pc = "passed"
    /\ CLIPBOARD_LAST_TIME' = handlers[h].current_time
    /\ handlers' = [handlers EXCEPT ![h].pc = "accepted"]
    /\ UNCHANGED <<now, clip, reqs>>

\* lines 289-307: the sleep, the read, the validation and the dispatch.
HandlerPaste(h, outcome) ==
    /\ handlers[h].pc = "accepted"
    /\ handlers' = [handlers EXCEPT ![h].pc = "done",
                                    ![h].word = ClipWord(outcome)]
    /\ IF ClipWord(outcome) # <<>>
       THEN SpawnWord(ClipWord(outcome))
       ELSE UNCHANGED reqs
    /\ UNCHANGED <<now, CLIPBOARD_LAST_TIME, clip>>

RaceTick ==
    /\ now < StartTime + MaxRaceClock
    /\ now' = now + 1
    /\ UNCHANGED <<clipVars, reqs>>

NextClipRace ==
    \/ \E h \in HandlerIds : HandlerTime(h) /\ UNCHANGED otherThanClip
    \/ \E h \in HandlerIds : HandlerTest(h) /\ UNCHANGED otherThanClip
    \/ \E h \in HandlerIds : HandlerAssign(h) /\ UNCHANGED otherThanClip
    \/ \E h \in HandlerIds, outcome \in PasteOutcomes :
          HandlerPaste(h, outcome) /\ UNCHANGED otherThanClip
    \/ RaceTick /\ UNCHANGED otherThanClip

SpecClipRace == Init /\ [][NextClipRace]_vars

---------------------------------------------------------------------------
(* The pronunciation thread *)

\* _instant_auto_pronounce is entered: "if not PLAYSOUND_AVAILABLE: return"
AudioStart ==
    /\ audio.pc = "idle"
    /\ audio' = [audio EXCEPT !.pc = IF PLAYSOUND_AVAILABLE THEN "poll"
                                     ELSE "done"]
    /\ UNCHANGED <<PLAYSOUND_AVAILABLE, cache_valid>>

\* One turn of the loop: the predicate, then playsound or the sleep.
AudioPoll(play_ok) ==
    /\ audio.pc = "poll"
    /\ IF LoopExhausted(audio.attempt)
       THEN audio' = [audio EXCEPT !.pc = "fallback"]
       ELSE IF cache_valid
       THEN audio' = [audio EXCEPT !.polls = @ + 1, !.sawValid = TRUE,
                                   !.plays = @ + 1, !.playOk = play_ok,
                                   !.pc = AfterPlay(play_ok)]
       ELSE audio' = [audio EXCEPT !.polls = @ + 1, !.attempt = @ + 1]
    /\ UNCHANGED <<PLAYSOUND_AVAILABLE, cache_valid>>

AfterStreamRetried(stream_ok) == IF stream_ok THEN "done" ELSE "fallback"

\* After streaming_play_and_cache the function is over: it returns, or
\* "except Exception: pass" and it returns.
AfterStream(stream_ok) == "done"

\* streaming_play_and_cache(url, cache_path): plays and writes the cache, or
\* raises, which the outer handler swallows.
AudioFallback(stream_ok) ==
    /\ audio.pc = "fallback"
    /\ audio' = [audio EXCEPT !.streams = @ + 1, !.pc = AfterStream(stream_ok)]
    /\ cache_valid' = IF stream_ok THEN TRUE ELSE cache_valid
    /\ UNCHANGED PLAYSOUND_AVAILABLE

\* The next request, for a word whose audio is not cached yet.
AudioNext ==
    /\ audio.pc = "done"
    /\ audio.n + 1 < MaxAudio
    /\ audio' = IdleAudio(audio.n + 1)
    /\ cache_valid' = FALSE
    /\ UNCHANGED PLAYSOUND_AVAILABLE

\* Another thread writes the cache file (fetch_full_dictionary_data stores
\* the audio) or the file goes away.
CacheChange ==
    /\ cache_valid' = ~cache_valid
    /\ UNCHANGED <<PLAYSOUND_AVAILABLE, audio>>

NextAudio ==
    \/ AudioStart /\ UNCHANGED otherThanAudio
    \/ \E play_ok \in BOOLEAN : AudioPoll(play_ok) /\ UNCHANGED otherThanAudio
    \/ \E stream_ok \in BOOLEAN :
          AudioFallback(stream_ok) /\ UNCHANGED otherThanAudio
    \/ AudioNext /\ UNCHANGED otherThanAudio
    \/ CacheChange /\ UNCHANGED otherThanAudio

SpecAudio == InitPronounce /\ [][NextAudio]_vars

\* The pronunciation thread is a running thread: it takes its next step.
AudioThread ==
    \/ AudioStart /\ UNCHANGED otherThanAudio
    \/ \E play_ok \in BOOLEAN : AudioPoll(play_ok) /\ UNCHANGED otherThanAudio
    \/ \E stream_ok \in BOOLEAN :
          AudioFallback(stream_ok) /\ UNCHANGED otherThanAudio

SpecAudioFair == SpecAudio /\ WF_vars(AudioThread)

---------------------------------------------------------------------------
(* The timer threads *)

\* Timer.run: self.finished.wait(self.interval), then the test of
\* self.finished.is_set().
TimerWake(i) ==
    /\ timers[i].pc = "wait"
    /\ timers[i].finished \/ now >= timers[i].deadline
    /\ timers' = [timers EXCEPT ![i].pc = IF timers[i].finished THEN "dead"
                                           ELSE "go"]
    /\ UNCHANGED <<keyVars, TRANSLATION_TIMER, afterQueue, lbl_eng, lbl_rus, now>>

\* delayed_translation_task up to the call of fetch_sentence_translation,
\* or through the placeholder branch.
TimerRun(i) ==
    /\ timers[i].pc = "go"
    /\ LET clean_text == BufferRead(timers[i], EDITOR)
       IN  IF NeedsFetch(clean_text)
           THEN /\ timers' = [timers EXCEPT ![i].pc = "fetch",
                                            ![i].clean = clean_text,
                                            ![i].fetched = TRUE,
                                            ![i].fire = EdGetText(EDITOR),
                                            ![i].seen = Len(timers)]
                /\ UNCHANGED afterQueue
           ELSE /\ timers' = [timers EXCEPT ![i].pc = "done",
                                            ![i].clean = clean_text,
                                            ![i].finished = TRUE,
                                            ![i].fire = EdGetText(EDITOR),
                                            ![i].seen = Len(timers)]
                /\ afterQueue' = Append(afterQueue, i)
    /\ UNCHANGED <<keyVars, TRANSLATION_TIMER, lbl_eng, lbl_rus, now>>

\* fetch_sentence_translation returns; the result is handed to Tk.
TimerFetchReturn(i) ==
    /\ timers[i].pc = "fetch"
    /\ timers' = [timers EXCEPT ![i].pc = "done", ![i].finished = TRUE]
    /\ afterQueue' = Append(afterQueue, i)
    /\ UNCHANGED <<keyVars, TRANSLATION_TIMER, lbl_eng, lbl_rus, now>>

---------------------------------------------------------------------------
(* Tk's main loop *)

\* The oldest pending app.after call runs: lbl_rus.config(text=...).
RunAfter ==
    /\ afterQueue # <<>>
    /\ lbl_rus' = Head(afterQueue)
    /\ afterQueue' = Tail(afterQueue)
    /\ UNCHANGED <<keyVars, TRANSLATION_TIMER, timers, lbl_eng, now>>

\* The text a timer's call gives lbl_rus, and the text lbl_rus shows.
PresentedText(i) ==
    IF timers[i].fetched THEN Translation(timers[i].clean) ELSE Placeholder

RusText == IF lbl_rus = 0 THEN <<>> ELSE PresentedText(lbl_rus)

Tick ==
    /\ now < StartTime + MaxClock
    /\ now' = now + 1
    /\ UNCHANGED <<keyVars, sentVars>>

\* The clock of a burst: nothing there reads the time once the last deadline
\* has passed, so the clock is advanced no further.
BurstTick ==
    /\ \E i \in 1..Len(timers) : now < timers[i].deadline
    /\ now' = now + 1
    /\ UNCHANGED <<keyVars, sentVars>>

Next ==
    \/ KeyEvent
    \/ \E i \in 1..Len(timers) : TimerWake(i) /\ UNCHANGED otherThanKeys
    \/ \E i \in 1..Len(timers) : TimerRun(i) /\ UNCHANGED otherThanKeys
    \/ \E i \in 1..Len(timers) : TimerFetchReturn(i) /\ UNCHANGED otherThanKeys
    \/ RunAfter /\ UNCHANGED otherThanKeys
    \/ Tick /\ UNCHANGED otherThanKeys

Spec == Init /\ [][Next]_vars

\* The same system over the keys of a burst.
NextBurst ==
    \/ BurstKeyEvent
    \/ \E i \in 1..Len(timers) : TimerWake(i) /\ UNCHANGED otherThanKeys
    \/ \E i \in 1..Len(timers) : TimerRun(i) /\ UNCHANGED otherThanKeys
    \/ \E i \in 1..Len(timers) : TimerFetchReturn(i) /\ UNCHANGED otherThanKeys
    \/ RunAfter /\ UNCHANGED otherThanKeys
    \/ BurstTick /\ UNCHANGED otherThanKeys

SpecBurst == Init /\ [][NextBurst]_vars

---------------------------------------------------------------------------
(* The end of the process.  state: "running" while APP.mainloop() runs,    *)
(* "closed" once it has returned and the finally block has run, "exited"   *)
(* when the interpreter has ended.                                         *)

\* "finally: close_all_sessions()": the timers are left as they are.
TimersAtShutdown(ts, h) == ts

\* APP.mainloop() returns and the finally block runs.
Shutdown ==
    /\ mainloop.state = "running"
    /\ mainloop' = [state |-> "closed",
                    pcs |-> [i \in 1..Len(timers) |-> timers[i].pc]]
    /\ timers' = TimersAtShutdown(timers, TRANSLATION_TIMER)
    /\ UNCHANGED <<keyVars, TRANSLATION_TIMER, afterQueue, lbl_eng, lbl_rus,
                   now, wordVars, clipVars, audioVars>>

\* threading.Timer threads are not daemon threads: the interpreter ends
\* when each of them has.
ProcessExit ==
    /\ mainloop.state = "closed"
    /\ \A i \in 1..Len(timers) : timers[i].pc \in {"done", "dead"}
    /\ mainloop' = [mainloop EXCEPT !.state = "exited"]
    /\ UNCHANGED otherThanMain

\* The keyboard hook and Tk's queue are served while the main loop runs;
\* the timer threads run until the process has ended.
ShutdownKeyEvent ==
    /\ mainloop.state = "running"
    /\ KeyEventOver({"up"}, BurstKeys, {FALSE}, {"en"}, MaxShutdownKeys)

NextShutdown ==
    \/ ShutdownKeyEvent
    \/ \E i \in 1..Len(timers) : TimerWake(i) /\ UNCHANGED otherThanKeys
    \/ \E i \in 1..Len(timers) : TimerRun(i) /\ UNCHANGED otherThanKeys
    \/ \E i \in 1..Len(timers) : TimerFetchReturn(i) /\ UNCHANGED otherThanKeys
    \/ mainloop.state = "running" /\ RunAfter /\ UNCHANGED otherThanKeys
    \/ BurstTick /\ UNCHANGED otherThanKeys
    \/ Shutdown
    \/ ProcessExit

SpecShutdown == Init /\ [][NextShutdown]_vars

\* The gate of the event path: every kind of event, few keys, and a clock
\* that runs past the TTL of the layout cache.
GateKeys == {"a", "."}

GateKeyEvent ==
    KeyEventOver({"down", "up"}, GateKeys, BOOLEAN, LayoutOutcomes, MaxGateKeys)

GateTick ==
    /\ now < StartTime + MaxGateClock
    /\ now' = now + 1
    /\ UNCHANGED <<keyVars, sentVars>>

NextGate ==
    \/ GateKeyEvent
    \/ GateTick /\ UNCHANGED otherThanKeys

SpecGate == Init /\ [][NextGate]_vars

\* The event path alone over the events it processes: key-ups of every
\* key under the English layout with no modifier held.
TypedKeys == KeyNames \cup Delimiters

TypedKeyEvent == KeyEventOver({"up"}, TypedKeys, {FALSE}, {"en"}, MaxKeys)

SpecKeys == Init /\ [][TypedKeyEvent]_vars

\* The keys that write or edit the text: letters, delimiters, space, enter,
\* backspace, delete, left and right.
EditKeys ==
    Letters \cup Delimiters
        \cup {"space", "enter", "backspace", "delete", "left", "right"}

EditKeyEvent == KeyEventOver({"up"}, EditKeys, {FALSE}, {"en"}, MaxEditKeys)

SpecEdit == Init /\ [][EditKeyEvent]_vars

\* A lookup runs while the user types: the event path and the threads of
\* one word, started from the search callback, side by side.
LookupKeyEvent == KeyEventOver({"up"}, GateKeys, {FALSE}, {"en"}, MaxLookupKeys)

NextLookup ==
    \/ LookupKeyEvent
    \/ process_word_async("A", MaxLookupWords) /\ UNCHANGED otherThanWords
    \/ WordThreads

SpecLookup == InitOrchestrator /\ [][NextLookup]_vars

\* The request whose pronunciation thread the audio record stands for.
AudioOf == audio.n + 1

\* worker_full_data_display, lines 234-240: the pronunciation thread of a
\* request exists once the dictionary worker has started it.
PronounceStart ==
    /\ AudioOf <= Len(reqs)
    /\ reqs[AudioOf].nAudio = 1
    /\ AudioStart

\* The dictionary worker and the pronunciation thread it starts, while the
\* user types; the translation and image workers are left out.
PronounceKeyEvent ==
    KeyEventOver({"up"}, GateKeys, {FALSE}, {"en"}, MaxPronounceKeys)

NextPronounce ==
    \/ PronounceKeyEvent
    \/ process_word_async("A", MaxPronounceWords) /\ UNCHANGED otherThanWords
    \/ \E r \in 1..Len(reqs), too_simple \in BOOLEAN :
          PWP_Filter(r, too_simple) /\ UNCHANGED otherThanWords
    \/ \E r \in 1..Len(reqs), cached_res \in BOOLEAN :
          PWP_Dispatch(r, cached_res) /\ UNCHANGED otherThanWords
    \/ \E r \in 1..Len(reqs), found \in BOOLEAN :
          worker_full_data_display(r, found) /\ UNCHANGED otherThanWords
    \/ RunWordUI /\ UNCHANGED otherThanWords
    \/ PronounceStart /\ UNCHANGED otherThanAudio
    \/ \E play_ok \in BOOLEAN : AudioPoll(play_ok) /\ UNCHANGED otherThanAudio
    \/ \E stream_ok \in BOOLEAN :
          AudioFallback(stream_ok) /\ UNCHANGED otherThanAudio
    \/ AudioNext /\ UNCHANGED otherThanAudio
    \/ CacheChange /\ UNCHANGED otherThanAudio

SpecPronounce == InitPronounce /\ [][NextPronounce]_vars

---------------------------------------------------------------------------
(* The sentence-translation channel: claims *)

TimerIds == 1..Len(timers)

\* The timers of the burst that timer b opened, and the last of them.
BurstTimers(b) == {i \in TimerIds : timers[i].burst = b}
IsLastOfBurst(i) == \A j \in TimerIds : timers[j].burst = timers[i].burst => j <= i

\* The callback body of timer i has read the buffer.
HasRun(i) == timers[i].pc \in {"fetch", "done"}

\* C1 as stated: every burst whose last timer has run to its end has issued
\* exactly one sentence-translation fetch.
C1_ExactlyOneFetchPerBurst ==
    \A i \in TimerIds :
        (IsLastOfBurst(i) /\ timers[i].pc = "done")
            => Cardinality({j \in BurstTimers(timers[i].burst) : timers[j].fetched}) = 1

\* C1 as amended: in a burst of boundary events, each handled before the
\* deadline of the timer the previous one started, only the timer of the last
\* boundary event can run its callback; a callback that runs reads the buffer
\* as it is then, and fetches once with the trimmed text when that is not
\* empty and not at all (placeholder) when it is.
C1_BurstDebounce ==
    \A i \in TimerIds :
        /\ ~IsLastOfBurst(i) => (~HasRun(i) /\ timers[i].pc # "go" /\ ~timers[i].fetched)
        /\ HasRun(i) => /\ timers[i].clean = Strip(timers[i].fire)
                        /\ timers[i].fetched <=> (timers[i].clean # <<>>)
        /\ Cardinality({j \in BurstTimers(timers[i].burst) : timers[j].fetched}) <= 1

\* A burst of two boundary events with a letter in between has ended in the
\* one fetch, made by the second timer with the trimmed text.
C1_Witness ==
    \E i \in TimerIds :
        /\ timers[i].burst < i
        /\ timers[i].pc = "done"
        /\ timers[i].fetched
        /\ timers[i].clean = <<"a">>

\* C2 as stated: a timer that a later-scheduled timer has replaced never goes
\* on to read the buffer or to fetch.
C2_ReplacedTimerNeverRuns ==
    [][\A i \in TimerIds :
          (i < Len(timers) /\ timers[i].pc = "go") => timers'[i].pc = "go"]_vars

\* C3: at most one sentence-translation timer is pending (started, not
\* cancelled, callback not begun) in any state.
Pending(i) == ~timers[i].finished /\ timers[i].pc \in {"wait", "go"}

C3_AtMostOnePending == Cardinality({i \in TimerIds : Pending(i)}) <= 1

\* A new timer has been installed over one whose thread has not yet found
\* that it was cancelled.
C3_Witness ==
    \E i, j \in TimerIds :
        /\ i < j
        /\ timers[i].finished /\ timers[i].pc \in {"wait", "go"}
        /\ Pending(j)


---------------------------------------------------------------------------
(* Claims on the task orchestrator: C4 under SpecOverlap, C5 and C6 under  *)
(* SpecWords                                                               *)

ReqIds == 1..Len(reqs)
ResultFields == {"trans", "img", "full"}

\* C4 (as stated): a result of an earlier word that arrives after the reset
\* of a later word is never applied to the display of the later word: every
\* field of the display that holds a result holds a result of the word the
\* display was last reset for.
C4_NoStaleResult ==
    \A f \in ResultFields : display[f] # None => display[f] = display.word

\* C5: for a word that passed the filter and whose cache check is done, a
\* cache hit gives the presentation tagged "Cache" and no translation
\* worker, hence no fetch; a miss gives one translation worker, which
\* fetches once and presents once; no word gets more than one translation
\* presentation.  The tag is read off the calls that wait for the main
\* window: a translation call is tagged "Cache" exactly when it is of a word
\* found in the cache.
C5_CacheFirstDispatch ==
    /\ \A k \in 1..Len(wordQueue) :
          wordQueue[k].op = "trans" =>
              ((wordQueue[k].tag = "Cache") <=> reqs[wordQueue[k].req].hit)
    /\ \A r \in ReqIds :
        /\ reqs[r].nTrans <= 1
        /\ reqs[r].nCacheCheck <= 1
        /\ (reqs[r].pc = "done" /\ ~reqs[r].simple) =>
              /\ reqs[r].nCacheCheck = 1
              /\ reqs[r].hit =>
                    /\ reqs[r].trans = "none"
                    /\ reqs[r].nFetchTrans = 0
                    /\ reqs[r].nTrans = 1
              /\ ~reqs[r].hit =>
                    /\ reqs[r].trans \in {"run", "done"}
                    /\ reqs[r].nFetchTrans = reqs[r].nTrans
                    /\ reqs[r].trans = "done" =>
                          reqs[r].nFetchTrans = 1 /\ reqs[r].nTrans = 1

\* A word was served from the cache: its presentation, tagged "Cache", is
\* the next call of the main window, after the reset.
C5_Witness ==
    \E r \in ReqIds :
        /\ reqs[r].pc = "done" /\ reqs[r].hit /\ reqs[r].nTrans = 1
        /\ display.word = reqs[r].tgt
        /\ wordQueue # <<>>
        /\ Head(wordQueue) = TransCall(r, reqs[r].tgt, "Cache")

\* C6: a word the filter calls too simple ends there: no reset, no cache
\* check, no presentation, no fetch, no worker, no pronunciation, and no
\* call of it waits for the main window.
C6_TooSimpleDoesNothing ==
    \A r \in ReqIds :
        reqs[r].simple =>
            /\ reqs[r].pc = "done"
            /\ reqs[r].nReset = 0 /\ reqs[r].nCacheCheck = 0
            /\ reqs[r].nTrans = 0 /\ reqs[r].nFetchTrans = 0
            /\ reqs[r].nImg = 0 /\ reqs[r].nFull = 0 /\ reqs[r].nAudio = 0
            /\ reqs[r].trans = "none" /\ reqs[r].img = "none"
            /\ reqs[r].full = "none"
            /\ \A k \in 1..Len(wordQueue) : wordQueue[k].req # r

\* A word was filtered out.
C6_Witness ==
    \E r \in ReqIds : reqs[r].simple /\ reqs[r].pc = "done"

---------------------------------------------------------------------------
(* Claims on the clipboard throttle, under SpecClip *)

AcceptedIds == 1..Len(clip.accepted)

\* C7: any two accepted clipboard events are at least ThrottleWindow apart;
\* the last event was accepted exactly when none was accepted before it or
\* the one accepted before it is at least ThrottleWindow old; while an
\* accepted event has not read the clipboard yet CLIPBOARD_LAST_TIME is
\* already its time, and every dispatched word belongs to an accepted event.
C7_ThrottleSpacing ==
    /\ \A i, j \in AcceptedIds :
          i < j => clip.accepted[j] - clip.accepted[i] >= ThrottleWindow
    /\ clip.last.t # Never =>
          (clip.last.accepted <=>
              (clip.last.prev = Never
                 \/ clip.last.t - clip.last.prev >= ThrottleWindow))
    /\ clip.pc = "accepted" =>
          clip.last.accepted /\ CLIPBOARD_LAST_TIME = clip.last.t
    /\ Len(reqs) + (IF clip.pc = "accepted" THEN 1 ELSE 0) <= Len(clip.accepted)

\* Two events 6 ticks apart were both processed, with a rejected one between.
C7_Witness ==
    /\ Len(clip.accepted) >= 2
    /\ clip.accepted[2] - clip.accepted[1] = ThrottleWindow + 1
    /\ clip.last.accepted /\ clip.last.rejected >= 1
    /\ Len(reqs) = 2

\* C8: CLIPBOARD_LAST_TIME is always the time of the last accepted event
\* (its initial value when there is none), so rejected events leave it
\* unchanged, and an event that arrives at least ThrottleWindow after the
\* last accepted one is accepted however many were rejected in between.
C8_RejectLeavesLastTime ==
    /\ CLIPBOARD_LAST_TIME =
          (IF clip.accepted = <<>> THEN 0
           ELSE clip.accepted[Len(clip.accepted)])
    /\ (clip.last.t # Never /\ clip.last.prev # Never
          /\ clip.last.t - clip.last.prev >= ThrottleWindow)
         => clip.last.accepted

\* An event was accepted after two rejected ones.
C8_Witness ==
    /\ clip.last.accepted
    /\ clip.last.prev # Never
    /\ clip.last.rejected >= 2

---------------------------------------------------------------------------
(* Claims on the audio readiness synchroniser *)

\* C9 (as stated): when a poll finds the cache valid there is exactly one
\* cached playback and never a streaming fallback, whatever the playback
\* does.
C9_ValidCacheNeverStreams ==
    audio.sawValid => audio.plays = 1 /\ audio.streams = 0

\* C9 (amended), under SpecAudio: when a poll finds the cache valid there is
\* exactly one cached playback; if it returns the request ends without a
\* streaming fallback, if it raises the polling stops and the streaming
\* fallback is called once.  Without a valid poll nothing is played from
\* the cache.
C9_ValidCachePlaysOnce ==
    /\ audio.sawValid =>
          /\ audio.plays = 1
          /\ audio.polls <= max_wait
          /\ audio.playOk => audio.pc = "done" /\ audio.streams = 0
          /\ ~audio.playOk =>
                \/ audio.pc = "fallback" /\ audio.streams = 0
                \/ audio.pc = "done" /\ audio.streams = 1
    /\ ~audio.sawValid => audio.plays = 0 /\ ~audio.playOk

\* The cache became valid while the thread was polling and was played.
C9_Witness ==
    /\ audio.sawValid /\ audio.playOk
    /\ audio.polls > 1
    /\ audio.pc = "done"

PollsAllFalse == audio.polls = max_wait /\ ~audio.sawValid

\* C10, under SpecAudioFair: a request never polls more than max_wait times
\* nor streams more than once; it streams without a valid poll only after
\* max_wait polls; and a request whose max_wait polls were all false ends
\* with one streaming call and no cached playback.
C10_FallbackOnceAfterBound ==
    /\ [](audio.polls <= max_wait /\ audio.streams <= 1)
    /\ []((audio.streams = 1 /\ ~audio.sawValid) => PollsAllFalse)
    /\ []((PollsAllFalse /\ audio.pc = "done") =>
            (audio.streams = 1 /\ audio.plays = 0))
    /\ (PollsAllFalse ~>
           (PollsAllFalse /\ audio.pc = "done" /\ audio.streams = 1
              /\ audio.plays = 0))

\* All max_wait polls were false and the fallback has been made.
C10_Witness ==
    PollsAllFalse /\ audio.pc = "done" /\ audio.streams = 1

---------------------------------------------------------------------------
(* Claims on the event path, under SpecKeys *)

\* The event path processes a key-up of the key called name.
Processes(name) ==
    /\ nKeys' = nKeys + 1
    /\ \E outcome \in LayoutOutcomes :
          on_key_event("up", name, outcome, FALSE, MaxKeys)

\* The length-1 keys that end a finished sentence, and those that do not.
ClearingKeys == {k \in TypedKeys : IsLen1(KEYBOARD_BUG_FIX(k))} \ NoClearKeys
DelimiterKeys == TypedKeys \cap NoClearKeys

\* C11: when the finished flag is set, a length-1 key other than space,
\* '.', '!', '?', ',' leaves the text buffer holding that one character,
\* the cursor behind it and the flag cleared; a delimiter key is inserted
\* at the cursor (the end of the text unless the cursor was moved) into the
\* text as it was.
C11_FinishedThenLiteralClears ==
    [][SENTENCE_FINISHED =>
         /\ \A k \in ClearingKeys :
               Processes(k) =>
                   /\ EDITOR' = [text |-> <<KEYBOARD_BUG_FIX(k)>>, cursor |-> 1]
                   /\ ~SENTENCE_FINISHED'
         /\ \A k \in DelimiterKeys :
               Processes(k) =>
                   /\ EDITOR' = EdInsert(EDITOR, k)
                   /\ Len(EDITOR'.text) = Len(EDITOR.text) + 1
                   /\ (EDITOR.cursor = Len(EDITOR.text)) =>
                         EDITOR'.text = Append(EDITOR.text, k)]_vars

\* "a." was typed, then "b": the buffer holds "b" alone.
C11_Witness ==
    /\ nKeys = 3
    /\ emitted = << <<"a">> >>
    /\ EDITOR = [text |-> <<"b">>, cursor |-> 1]
    /\ BUFFER = <<"b">>
    /\ ~SENTENCE_FINISHED

\* The keys that give an ASCII letter.
LetterKeys == {k \in TypedKeys : KEYBOARD_BUG_FIX(k) \in Letters}

\* Every event processed so far was a letter: each of them left its letter
\* in the text buffer.
OnlyLetters ==
    /\ Len(EDITOR.text) = nKeys
    /\ \A i \in 1..Len(EDITOR.text) : EDITOR.text[i] \in Letters

\* C12: while only letters have been processed, every further letter is
\* added at the end of the text buffer and of the accumulator, so both are
\* the letters in arrival order; the two are equal, the cursor is at the
\* end, the flag is clear and no word has been emitted.
C12_LettersConcatenate ==
    /\ [](OnlyLetters =>
            /\ BUFFER = EDITOR.text
            /\ EDITOR.cursor = Len(EDITOR.text)
            /\ emitted = <<>>
            /\ ~SENTENCE_FINISHED)
    /\ [][OnlyLetters =>
            \A k \in LetterKeys :
                Processes(k) =>
                    /\ EDITOR'.text = Append(EDITOR.text, KEYBOARD_BUG_FIX(k))
                    /\ BUFFER' = Append(BUFFER, KEYBOARD_BUG_FIX(k))
                    /\ emitted' = emitted]_vars

\* "b", "a", "b" were typed.
C12_Witness ==
    /\ nKeys = 3
    /\ EDITOR.text = <<"b", "a", "b">>
    /\ BUFFER = <<"b", "a", "b">>
    /\ emitted = <<>>

\* C13 (as stated): after every processed event, the finished flag implies
\* an empty text buffer.
C13_FinishedImpliesEmpty ==
    SENTENCE_FINISHED => EDITOR.text = <<>>

\* C13 (amended): after every processed event, the finished flag implies
\* that the text buffer is not empty (it holds the finished sentence, with
\* the terminator or newline that set the flag) and that the accumulator is
\* empty.
C13_FinishedKeepsSentence ==
    SENTENCE_FINISHED =>
        /\ EDITOR.text # <<>>
        /\ \E i \in 1..Len(EDITOR.text) :
              EDITOR.text[i] \in Terminators \cup {"\n"}
        /\ BUFFER = <<>>

\* "a." was typed and a space after it: the flag is set, the text is there.
C13_Witness ==
    /\ SENTENCE_FINISHED
    /\ EDITOR.text = <<"a", ".", " ">>
    /\ nKeys = 3

---------------------------------------------------------------------------
(* Claims on the gate of the event path, under SpecGate *)

\* C14 (as stated): the layout source is asked at most once per TTL window,
\* failed queries included: two queries in a row are at least LayoutTTL
\* apart.
C14_OneQueryPerWindow ==
    layout_query.prev # NoQuery =>
        layout_query.last - layout_query.prev >= LayoutTTL

\* An event that on_key_event drops: a key-down, an event under another
\* layout, or one with ctrl or alt held.
DroppedEvent ==
    \E event_type \in {"down", "up"}, name \in GateKeys, modifier \in BOOLEAN,
       outcome \in LayoutOutcomes :
        /\ \/ event_type = "down"
           \/ ~is_english_layout(layout_cache, now, outcome)
           \/ modifier
        /\ on_key_event(event_type, name, outcome, modifier, MaxGateKeys)

\* C15: a dropped event leaves the text buffer with its cursor, the
\* accumulator, the finished flag and the timers unchanged, emits no word
\* and makes no presentation call.
C15_DroppedEventChangesNothing ==
    [][DroppedEvent =>
         UNCHANGED <<EDITOR, BUFFER, SENTENCE_FINISHED, emitted, nKeys,
                     TRANSLATION_TIMER, timers, afterQueue, lbl_eng, lbl_rus,
                     reqs, wordQueue, display>>]_vars

\* "a." was typed and a timer is pending; half a second later an event
\* arrived under another layout and was dropped.
C15_Witness ==
    /\ ~layout_cache.is_english
    /\ layout_query.prev # NoQuery
    /\ EDITOR = [text |-> <<"a", ".">>, cursor |-> 2]
    /\ SENTENCE_FINISHED
    /\ TRANSLATION_TIMER # 0
    /\ timers[TRANSLATION_TIMER].pc = "wait"
    /\ ~timers[TRANSLATION_TIMER].finished

---------------------------------------------------------------------------
(* Further claims on the sentence-translation channel, under SpecBurst *)

\* C16 (as stated): only a boundary event touches the channel.  A timer is
\* cancelled (its finished event set) only in a step that starts a new
\* timer, or by its own thread when the callback has returned; an event
\* that starts no timer cancels none.
C16_OnlyBoundaryEventsCancel ==
    [][\A i \in TimerIds :
          (~timers[i].finished /\ timers'[i].finished) =>
              \/ Len(timers') > Len(timers)
              \/ timers'[i].pc = "done"]_vars

\* No callback is running and no call for lbl_rus is waiting.
ChannelQuiet ==
    /\ afterQueue = <<>>
    /\ \A i \in TimerIds : timers[i].pc \notin {"go", "fetch"}

\* Timer j was scheduled while the callback of timer i was in its fetch,
\* and both have fetched and handed their results over.
Superseded(i, j) ==
    /\ i < j
    /\ timers[i].pc = "done" /\ timers[i].fetched
    /\ timers[j].pc = "done" /\ timers[j].fetched
    /\ timers[i].seen < j

\* C17 (as stated): when a timer is scheduled and fires while the callback
\* of an earlier one is in its fetch, then whatever the order in which the
\* two fetches complete, once the channel is quiet lbl_rus does not show
\* the result of the earlier one.
C17_NewestResultShown ==
    ChannelQuiet =>
        \A i, j \in TimerIds : Superseded(i, j) => lbl_rus # i

---------------------------------------------------------------------------
(* Further claims on the task orchestrator, under SpecWords *)

\* C18: the reset of a word reaches the main window before every result of
\* that word.  A result that waits for the main window belongs to a word
\* whose reset was queued and is not behind it in the queue, which the
\* main window works off from the head; and no field of the display holds
\* a result before a reset has set the current word.
C18_ResetBeforeResults ==
    /\ \A k \in 1..Len(wordQueue) :
          wordQueue[k].op # "reset" =>
              /\ reqs[wordQueue[k].req].nReset = 1
              /\ \A j \in (k + 1)..Len(wordQueue) :
                    ~(wordQueue[j].op = "reset"
                        /\ wordQueue[j].req = wordQueue[k].req)
    /\ \A f \in ResultFields : display[f] # None => display.word # None

\* The cached translation and the image of a word are on display, put
\* there after the word's reset.
C18_Witness ==
    \E r \in ReqIds :
        /\ reqs[r].hit
        /\ display.word = reqs[r].tgt
        /\ display.trans = reqs[r].tgt
        /\ display.img = reqs[r].tgt

\* Request r passed the filter and its dispatch is over.
Dispatched(r) == r <= Len(reqs) /\ reqs[r].pc = "done" /\ ~reqs[r].simple

\* The call of the given kind of request r was queued and has been run.
Presented(r, op) ==
    /\ r <= Len(reqs)
    /\ (IF op = "img" THEN reqs[r].nImg ELSE reqs[r].nFull) = 1
    /\ \A k \in 1..Len(wordQueue) :
          ~(wordQueue[k].req = r /\ wordQueue[k].op = op)

\* C19: a word that passed the filter has one image worker and one
\* dictionary worker, cache hit or miss, and neither presents more than
\* once; if the image worker keeps running its presentation comes about,
\* and likewise the dictionary worker, whatever the other workers do.
C19_IndependentWorkers ==
    /\ [](\A r \in ReqIds :
            /\ reqs[r].nImg <= 1 /\ reqs[r].nFull <= 1
            /\ Dispatched(r) =>
                  /\ reqs[r].img \in {"run", "done"}
                  /\ reqs[r].full \in {"run", "done"})
    /\ \A r \in 1..MaxFairWords :
          /\ WF_vars(ImgWorkers) => (Dispatched(r) ~> Presented(r, "img"))
          /\ WF_vars(FullWorkers) => (Dispatched(r) ~> Presented(r, "full"))

\* A cache hit: the image and the dictionary data have been presented
\* while no translation worker exists.
C19_Witness ==
    \E r \in ReqIds :
        /\ Dispatched(r) /\ reqs[r].hit /\ reqs[r].trans = "none"
        /\ Presented(r, "img") /\ Presented(r, "full")

---------------------------------------------------------------------------
(* The hand-over of completed words by the event path, under SpecKeys *)

\* The keys that end a word, and those of them that end a sentence.
BoundaryKeys ==
    {k \in TypedKeys : KEYBOARD_BUG_FIX(k) \in Delimiters} \cup {"space", "enter"}
FinishingKeys ==
    {k \in TypedKeys : KEYBOARD_BUG_FIX(k) \in Terminators} \cup {"enter"}

\* C20: a word is handed to the orchestrator exactly when a delimiter, space
\* or enter is processed with a non-empty accumulator; the word is the
\* accumulator as it was, the accumulator is empty afterwards, and the
\* same key with an empty accumulator hands over nothing.  '.', '!', '?'
\* and enter set the finished flag; space and ',' leave it as it was.
C20_WordEmittedAtBoundary ==
    [][/\ \A k \in BoundaryKeys :
            Processes(k) =>
              /\ emitted' = IF BUFFER # <<>> THEN Append(emitted, BUFFER)
                                             ELSE emitted
              /\ BUFFER' = <<>>
              /\ k \in FinishingKeys => SENTENCE_FINISHED'
              /\ k \notin FinishingKeys =>
                    SENTENCE_FINISHED' = SENTENCE_FINISHED
       /\ \A k \in TypedKeys \ BoundaryKeys :
            Processes(k) => emitted' = emitted
       /\ emitted' # emitted =>
            /\ BUFFER # <<>>
            /\ \E k \in BoundaryKeys : Processes(k)]_vars

\* "a.." was typed: the word went out once, at the first '.'.
C20_Witness ==
    /\ emitted = << <<"a">> >>
    /\ EDITOR.text = <<"a", ".", ".">>
    /\ BUFFER = <<>>
    /\ SENTENCE_FINISHED
    /\ nKeys = 3

---------------------------------------------------------------------------
(* Claims on overlapping clipboard calls, under SpecClipRace *)

\* The call went past the throttle and handed a word to process_word_async.
Dispatching(h) == handlers[h].pc = "done" /\ handlers[h].word # <<>>

\* C21 (as stated): of two clipboard calls whose clock reads lie within one
\* throttle window, at most one is accepted and dispatches a word lookup.
C21_OneAcceptedPerWindow ==
    \A h1, h2 \in HandlerIds :
        (/\ h1 # h2
         /\ Dispatching(h1) /\ Dispatching(h2))
          => ~(handlers[h1].current_time - handlers[h2].current_time
                  \in (1 - ThrottleWindow)..(ThrottleWindow - 1))

---------------------------------------------------------------------------
(* Claims on a failing translation fetch, under SpecLookup *)

\* The translation worker of request r gets no result from its fetch.
FetchFails(r) == worker_trans(r, "none") /\ UNCHANGED otherThanWords

\* C22: a translation fetch that gives no result is followed by one
\* presentation of an empty translation and by no second fetch; it leaves
\* the image and dictionary workers of the word and their pending
\* presentations as they were, and the text buffer, the accumulator and
\* the finished flag too.
C22_FetchErrorIsContained ==
    /\ [](\A r \in ReqIds :
            reqs[r].nFetchTrans <= 1 /\ reqs[r].nTrans <= 1)
    /\ [][\A r \in ReqIds :
            FetchFails(r) =>
              /\ wordQueue' = Append(wordQueue, TransCall(r, None, "-"))
              /\ reqs'[r].trans = "done"
              /\ reqs'[r].nFetchTrans = 1 /\ reqs'[r].nTrans = 1
              /\ \A f \in {"img", "full", "nImg", "nFull"} :
                    reqs'[r][f] = reqs[r][f]
              /\ UNCHANGED <<EDITOR, BUFFER, SENTENCE_FINISHED, display>>]_vars

\* The fetch gave nothing and the empty translation is shown, next to the
\* image and the dictionary data of the word, while a word is being typed.
C22_Witness ==
    \E r \in ReqIds :
        /\ ~reqs[r].hit /\ reqs[r].trans = "done" /\ reqs[r].nFetchTrans = 1
        /\ wordQueue = <<>>
        /\ display =
              [word |-> reqs[r].tgt, trans |-> None, img |-> reqs[r].tgt,
               full |-> reqs[r].tgt]
        /\ BUFFER = <<"a">> /\ EDITOR.text = <<"a">> /\ nKeys = 1

---------------------------------------------------------------------------
(* Claims on a failing pronunciation, under SpecPronounce *)

\* The three failures of a pronunciation request: the audio backend is
\* missing, playsound raises, streaming_play_and_cache raises.
BackendMissing == ~PLAYSOUND_AVAILABLE /\ PronounceStart
PlaybackRaises ==
    cache_valid /\ ~LoopExhausted(audio.attempt) /\ AudioPoll(FALSE)
StreamRaises == AudioFallback(FALSE)
PronounceFails ==
    (BackendMissing \/ PlaybackRaises \/ StreamRaises)
        /\ UNCHANGED otherThanAudio

\* C23: a failure inside a pronunciation request ends the request, at once
\* or, when the cached playback raised, after the one streaming call; there
\* is at most one cached playback and one streaming call per request; the
\* failure changes nothing of the dictionary worker, of the main window's
\* pending calls or of the event path, and the dictionary presentation of
\* the word was handed to the main window before the request began.
C23_PronounceFailureIsContained ==
    /\ [](audio.plays <= 1 /\ audio.streams <= 1)
    /\ [](audio.pc # "idle" =>
            /\ AudioOf <= Len(reqs)
            /\ reqs[AudioOf].full = "done" /\ reqs[AudioOf].nFull = 1)
    /\ [][PronounceFails =>
            /\ BackendMissing =>
                  audio'.pc = "done" /\ audio'.plays = 0 /\ audio'.streams = 0
            /\ PlaybackRaises =>
                  audio'.pc = "fallback" /\ audio'.streams = 0
            /\ StreamRaises => audio'.pc = "done" /\ audio'.streams = 1
            /\ UNCHANGED <<reqs, wordQueue, display, EDITOR, BUFFER,
                           SENTENCE_FINISHED>>]_vars

\* The cached playback raised and the streaming call was made; the
\* dictionary data of the word is on display and a word is being typed.
C23_Witness ==
    /\ audio.n = 0 /\ audio.pc = "done"
    /\ audio.plays = 1 /\ ~audio.playOk /\ audio.streams = 1
    /\ Len(reqs) = 1 /\ display.full = reqs[1].tgt
    /\ BUFFER = <<"a">>

---------------------------------------------------------------------------
(* Claims on the end of the process, under SpecShutdown *)

\* C24 (as stated): once the main loop has ended, the callback of a timer
\* that was still waiting at that moment does not start, so that it makes
\* no sentence-translation fetch.
C24_NoCallbackAfterShutdown ==
    mainloop.state # "running" =>
        \A i \in 1..Len(mainloop.pcs) :
            mainloop.pcs[i] = "wait" =>
                timers[i].pc \in {"wait", "dead"} /\ ~timers[i].fetched

---------------------------------------------------------------------------
(* Claims on the accumulator and the text, under SpecEdit *)

\* The longest run of letters of the text that ends at the cursor.
WordAtCursor(ed) ==
    LET runs == {n \in 0..ed.cursor :
                    \A i \in (ed.cursor - n + 1)..ed.cursor :
                        ed.text[i] \in Letters}
        len == CHOOSE n \in runs : \A m \in runs : m <= n
    IN  SubSeq(ed.text, ed.cursor - len + 1, ed.cursor)

\* C25 (as stated): after every processed event the accumulator is the
\* longest run of letters that ends at the cursor of the text buffer.
C25_AccumulatorIsWordAtCursor == BUFFER = WordAtCursor(EDITOR)

---------------------------------------------------------------------------
(* The finished flag and the accumulator, under SpecKeys *)

\* C26: after every processed event the finished flag implies an empty
\* accumulator: the step that sets the flag leaves the accumulator empty,
\* and a step that makes the accumulator longer leaves the flag clear.
C26_FinishedImpliesNoWord ==
    /\ [](SENTENCE_FINISHED => BUFFER = <<>>)
    /\ [][/\ (SENTENCE_FINISHED' /\ ~SENTENCE_FINISHED) => BUFFER' = <<>>
          /\ Len(BUFFER') > Len(BUFFER) => ~SENTENCE_FINISHED']_vars

\* "ab" and enter: the word went out, the flag is set and the accumulator
\* is empty.
C26_Witness ==
    /\ nKeys = 3
    /\ SENTENCE_FINISHED /\ BUFFER = <<>>
    /\ EDITOR.text = <<"a", "b", "\n">>
    /\ emitted = << <<"a", "b">> >>

============================================================================
